---- MODULE Spec2Model ----
(***************************************************************************)
(* Model of the synchronous Cloudflare API client                          *)
(* (cloudflare/src/framework/mod.rs): Environment resolution, client       *)
(* construction, make_request, request and request_raw_bytes.              *)
(*                                                                         *)
(* Option<T> values are sequences of length at most one: <<>> is None and  *)
(* <<x>> is Some(x).  Byte strings are sequences of one-token strings.     *)
(***************************************************************************)
EXTENDS Integers, Sequences, FiniteSets, TLC

VARIABLES
    newResult,  \* outcome of HttpApiClient::new: "none" (not called), "ok", "err"
    client,     \* Option<HttpApiClient>: the constructed client value
    pc,         \* per thread: "idle", "awaiting", "returned", "panicked"
    op,         \* per thread: "none", "request", "request_raw_bytes"
    ep,         \* per thread: Option<endpoint> of the current call
    wire,       \* per thread: Option<wire request> built by make_request
    resp,       \* per thread: Option<response> obtained by send()
    ret,        \* per thread: the set of values handed back to the caller
    mapped,     \* per thread: invocations of map_api_response in the call
    bodyRead,   \* per thread: copy_to read the response body to its end
    nCalls,     \* calls of request / request_raw_bytes so far
    nSends      \* wire requests handed to the transport so far

vars == <<newResult, client, pc, op, ep, wire, resp, ret, mapped, bodyRead,
          nCalls, nSends>>

-----------------------------------------------------------------------------
(* Bounds *)

\* cap on the number of calls issued over a behaviour
MaxCalls == 2

\* longest errors list carried by a modelled response envelope
MaxErrors == 2

Threads == {"t1", "t2"}

-----------------------------------------------------------------------------
(* Option helpers *)

None == <<>>

Some(x) == <<x>>

IsSome(o) == Len(o) = 1

Unwrap(o) == o[1]

-----------------------------------------------------------------------------
(* Environment *)

\* the Url that url::Url::parse yields for the hard-coded literal (the literal
\* is already in the normal form a Url serialises to)
ProductionUrl == "https://api.cloudflare.com/client/v4/"

CustomUrl == "http://localhost:8787/v4/"

Environments ==
    { [tag |-> "Production", url |-> ""],
      [tag |-> "Custom", url |-> CustomUrl] }

\* a plausible slip: the Custom arm ignored
UrlFromEnvironment_alwaysProduction(environment) == ProductionUrl

\* impl From<&Environment> for url::Url
UrlFromEnvironment(environment) ==
    IF environment.tag = "Production"
    THEN ProductionUrl
    ELSE environment.url

-----------------------------------------------------------------------------
(* Credentials and the authentication capability *)

CredentialsSet ==
    { [tag |-> "UserAuthKey", email |-> "a@b.c", key |-> "k1", token |-> ""],
      [tag |-> "UserAuthToken", email |-> "", key |-> "", token |-> "tok"],
      [tag |-> "Service", email |-> "", key |-> "sk", token |-> ""],
      [tag |-> "None", email |-> "", key |-> "", token |-> ""] }

\* request.auth(&credentials): the headers each variant adds
AuthHeaders(credentials) ==
    CASE credentials.tag = "UserAuthKey" ->
            { <<"X-Auth-Email", credentials.email>>,
              <<"X-Auth-Key", credentials.key>> }
      [] credentials.tag = "UserAuthToken" ->
            { <<"Authorization", "Bearer " \o credentials.token>> }
      [] credentials.tag = "Service" ->
            { <<"X-Auth-User-Service-Key", credentials.key>> }
      [] OTHER -> {}

-----------------------------------------------------------------------------
(* Client configuration and construction *)

DefaultHttpTimeoutSecs == 30

\* HttpApiClientConfig::default
DefaultConfig == [http_timeout |-> DefaultHttpTimeoutSecs]

Configs == { DefaultConfig }

-----------------------------------------------------------------------------
(* Endpoints *)

\* Body payloads are lists of items; the item "unserializable" stands for a
\* value whose Serialize implementation reports an error (for serde_json:
\* a map with non-string keys, or a custom impl that fails).
Endpoints ==
    { [method |-> "Get", path |-> "zones", query |-> <<>>,
       body |-> None, content_type |-> "application/json"],
      [method |-> "Put", path |-> "scripts", query |-> << <<"name", "x">> >>,
       body |-> Some(<<"a", "b">>), content_type |-> "application/javascript"],
      [method |-> "Post", path |-> "scripts", query |-> <<>>,
       body |-> Some(<<"unserializable">>), content_type |-> "application/json"] }

\* reqwest_adaptors::match_reqwest_method
match_reqwest_method(method) ==
    CASE method = "Get" -> "GET"
      [] method = "Post" -> "POST"
      [] method = "Put" -> "PUT"
      [] method = "Delete" -> "DELETE"
      [] OTHER -> "PATCH"

\* Endpoint::url(&environment): the resolved base address joined with path()
EndpointUrl(endpoint, environment) ==
    [base |-> UrlFromEnvironment(environment), path |-> endpoint.path]

RECURSIVE JsonItems(_)
\* the comma-separated items of a JSON array
JsonItems(items) ==
    IF Len(items) = 0 THEN <<>>
    ELSE IF Len(items) = 1 THEN <<"\"" \o items[1] \o "\"">>
    ELSE <<"\"" \o items[1] \o "\"", ",">> \o JsonItems(Tail(items))

\* serde_json::to_string(&body): Ok(text) or Err
to_string(body) ==
    IF \E i \in 1..Len(body) : body[i] = "unserializable"
    THEN [ok |-> FALSE, text |-> <<>>]
    ELSE [ok |-> TRUE, text |-> <<"[">> \o JsonItems(body) \o <<"]">>]

\* make_request panics exactly when .unwrap() meets an Err
MakeRequestPanics(endpoint) ==
    IsSome(endpoint.body) /\ ~to_string(Unwrap(endpoint.body)).ok

\* a plausible slip: the content-type header set outside the `if let`
make_request_alwaysContentType(self, endpoint) ==
    [method |-> match_reqwest_method(endpoint.method),
     url |-> EndpointUrl(endpoint, self.environment),
     query |-> endpoint.query,
     body |-> IF IsSome(endpoint.body)
              THEN Some(to_string(Unwrap(endpoint.body)).text) ELSE None,
     headers |-> {<<"content-type", endpoint.content_type>>}
                 \cup AuthHeaders(self.credentials)]

\* a plausible slip: the request left undecorated
make_request_noAuth(self, endpoint) ==
    [method |-> match_reqwest_method(endpoint.method),
     url |-> EndpointUrl(endpoint, self.environment),
     query |-> endpoint.query,
     body |-> IF IsSome(endpoint.body)
              THEN Some(to_string(Unwrap(endpoint.body)).text) ELSE None,
     headers |-> IF IsSome(endpoint.body)
                 THEN {<<"content-type", endpoint.content_type>>} ELSE {}]

\* HttpApiClient::make_request, for an endpoint on which it does not panic
make_request(self, endpoint) ==
    [method |-> match_reqwest_method(endpoint.method),
     url |-> EndpointUrl(endpoint, self.environment),
     query |-> endpoint.query,
     body |-> IF IsSome(endpoint.body)
              THEN Some(to_string(Unwrap(endpoint.body)).text) ELSE None,
     headers |-> (IF IsSome(endpoint.body)
                  THEN {<<"content-type", endpoint.content_type>>} ELSE {})
                 \cup AuthHeaders(self.credentials)]

-----------------------------------------------------------------------------
(* Transport results *)

\* why send() obtained no response
TransportErrors == {"connect", "timeout"}

\* why copy_to() stopped before the end of the body
BodyError == "body"

StatusCodes == {200, 400}

\* the error entries a modelled envelope can carry, by their token
ErrorTokens == {"e1003", "e7000"}

ErrorEntry(token) ==
    IF token = "e1003"
    THEN [code |-> 1003, message |-> "Invalid or missing zone id"]
    ELSE [code |-> 7000, message |-> "No route for that URI"]

OtherToken(token) == IF token = "e1003" THEN "e7000" ELSE "e1003"

\* the errors lists of the modelled envelopes: up to MaxErrors entries,
\* the two entries alternating, in either order
ErrorLists ==
    { [i \in 1..n |-> IF i % 2 = 1 THEN first ELSE OtherToken(first)] :
          first \in ErrorTokens, n \in 0..MaxErrors }

\* Response bodies, as token strings.  An envelope is the token "t" or "f"
\* (the success flag), then "r" (a result of the expected shape) or "n"
\* (a null result), then the errors list, one token per entry.
Bodies ==
    { <<"<html>">>, <<"t", "r">>, <<"t", "n">> }
    \cup { <<"f", "n">> \o es : es \in ErrorLists }

Responses == [status : StatusCodes, body : Bodies]

\* StatusCode::is_success
is_success(status) == status >= 200 /\ status < 300

RECURSIVE ParseErrors(_)
ParseErrors(tokens) ==
    IF Len(tokens) = 0 THEN <<>>
    ELSE <<ErrorEntry(tokens[1])>> \o ParseErrors(Tail(tokens))

\* Parse a body as the service's envelope with the expected result shape
ParseEnvelope(body) ==
    IF /\ Len(body) >= 2
       /\ body[1] \in {"t", "f"}
       /\ body[2] \in {"r", "n"}
       /\ \A i \in 3..Len(body) : body[i] \in ErrorTokens
       /\ (body[1] = "t" => body[2] = "r")
    THEN [ok |-> TRUE, success |-> body[1] = "t",
          result |-> IF body[2] = "r" THEN Some("result") ELSE None,
          errors |-> ParseErrors(SubSeq(body, 3, Len(body)))]
    ELSE [ok |-> FALSE, success |-> FALSE, result |-> None, errors |-> <<>>]

\* The values a call hands back: kind is the Result arm, class the variant.
Outcome(kind, class, status, cause, result, errors, bytes) ==
    [kind |-> kind, class |-> class, status |-> status, cause |-> cause,
     result |-> result, errors |-> errors, bytes |-> bytes]

ApiSuccess(result) == Outcome("Ok", "Success", 0, "", result, <<>>, <<>>)

ServiceFailure(status, errors) ==
    Outcome("Err", "Service", status, "", None, errors, <<>>)

ShapeFailure(status) == Outcome("Err", "Shape", status, "", None, <<>>, <<>>)

\* From<reqwest::Error>: what `?` turns a send or read error into
TransportFailure(cause) == Outcome("Err", "Transport", 0, cause, None, <<>>, <<>>)

RawBytes(bytes) == Outcome("Ok", "Bytes", 0, "", None, <<>>, bytes)

\* response::map_api_response
map_api_response(response) ==
    LET env == ParseEnvelope(response.body)
    IN  IF ~is_success(response.status)
        THEN ServiceFailure(response.status, env.errors)
        ELSE IF ~env.ok THEN ShapeFailure(response.status)
        ELSE IF env.success THEN ApiSuccess(env.result)
        ELSE ServiceFailure(response.status, env.errors)

\* Response::copy_to(&mut buf) read in full: every body byte appended to buf
copy_to(response, buf) == buf \o response.body

-----------------------------------------------------------------------------
(* Initial state: nothing constructed, no call issued *)

Init ==
    /\ newResult = "none"
    /\ client = None
    /\ pc = [t \in Threads |-> "idle"]
    /\ op = [t \in Threads |-> "none"]
    /\ ep = [t \in Threads |-> None]
    /\ wire = [t \in Threads |-> None]
    /\ resp = [t \in Threads |-> None]
    /\ ret = [t \in Threads |-> {}]
    /\ mapped = [t \in Threads |-> 0]
    /\ bodyRead = [t \in Threads |-> FALSE]
    /\ nCalls = 0
    /\ nSends = 0

callVars == <<pc, op, ep, wire, resp, ret, mapped, bodyRead, nCalls, nSends>>

-----------------------------------------------------------------------------
(* HttpApiClient::new *)

\* a plausible slip: the build error swallowed and a client returned anyway
New_deferred(credentials, config, environment, built) ==
    /\ newResult = "none"
    /\ newResult' = IF built THEN "ok" ELSE "err"
    /\ client' = Some([environment |-> environment,
                       credentials |-> credentials,
                       http_client |-> [timeout |-> config.http_timeout]])
    /\ UNCHANGED callVars

\* `built` is the result of reqwest's ClientBuilder::build(); `?` returns
\* its error before any HttpApiClient value is made.
New(credentials, config, environment, built) ==
    /\ newResult = "none"
    /\ IF built
       THEN /\ newResult' = "ok"
            /\ client' = Some([environment |-> environment,
                               credentials |-> credentials,
                               http_client |-> [timeout |-> config.http_timeout]])
       ELSE /\ newResult' = "err"
            /\ client' = None
    /\ UNCHANGED callVars

-----------------------------------------------------------------------------
(* The start of a call: make_request(endpoint).send() up to the point where
   the calling thread blocks on the transport *)

Begin(t, endpoint, which) ==
    /\ IsSome(client)
    /\ pc[t] \in {"idle", "returned"}
    /\ nCalls < MaxCalls
    /\ nCalls' = nCalls + 1
    /\ op' = [op EXCEPT ![t] = which]
    /\ ep' = [ep EXCEPT ![t] = Some(endpoint)]
    /\ resp' = [resp EXCEPT ![t] = None]
    /\ ret' = [ret EXCEPT ![t] = {}]
    /\ mapped' = [mapped EXCEPT ![t] = 0]
    /\ bodyRead' = [bodyRead EXCEPT ![t] = FALSE]
    /\ IF MakeRequestPanics(endpoint)
       THEN /\ pc' = [pc EXCEPT ![t] = "panicked"]
            /\ wire' = [wire EXCEPT ![t] = None]
            /\ nSends' = nSends
       ELSE /\ pc' = [pc EXCEPT ![t] = "awaiting"]
            /\ wire' = [wire EXCEPT ![t] = Some(make_request(Unwrap(client), endpoint))]
            /\ nSends' = nSends + 1
    /\ UNCHANGED <<newResult, client>>

\* ApiClient::request, entry
Request(t, endpoint) == Begin(t, endpoint, "request")

\* ApiClient::request_raw_bytes, entry
RequestRawBytes(t, endpoint) == Begin(t, endpoint, "request_raw_bytes")

\* the call of thread t returns the values in `values`
Return(t, values) ==
    /\ pc' = [pc EXCEPT ![t] = "returned"]
    /\ ret' = [ret EXCEPT ![t] = values]
    /\ UNCHANGED <<newResult, client, op, ep, wire, nCalls>>

-----------------------------------------------------------------------------
(* request: the transport's answer *)

\* a plausible slip: the send error not propagated, the mapper run regardless
RequestSendErr_mapsAnyway(t, cause) ==
    /\ pc[t] = "awaiting" /\ op[t] = "request"
    /\ mapped' = [mapped EXCEPT ![t] = @ + 1]
    /\ Return(t, {ShapeFailure(0)})
    /\ UNCHANGED <<resp, bodyRead, nSends>>

\* a plausible slip: a failed send sent again
RequestSendErr_retry(t, cause) ==
    /\ pc[t] = "awaiting" /\ op[t] = "request"
    /\ nSends <= MaxCalls
    /\ nSends' = nSends + 1
    /\ UNCHANGED <<newResult, client, pc, op, ep, wire, resp, ret, mapped,
                   bodyRead, nCalls>>

\* send() fails: `?` returns the error, map_api_response is not reached
RequestSendErr(t, cause) ==
    /\ pc[t] = "awaiting" /\ op[t] = "request"
    /\ Return(t, {TransportFailure(cause)})
    /\ UNCHANGED <<resp, mapped, bodyRead, nSends>>

\* a plausible slip: error statuses turned into errors before the mapper
RequestSendOk_errorForStatus(t, response) ==
    /\ pc[t] = "awaiting" /\ op[t] = "request"
    /\ resp' = [resp EXCEPT ![t] = Some(response)]
    /\ mapped' = [mapped EXCEPT ![t] = @ + 1]
    /\ Return(t, {IF is_success(response.status)
                  THEN map_api_response(response)
                  ELSE TransportFailure("status")})
    /\ UNCHANGED <<bodyRead, nSends>>

\* send() yields a response: the call returns what map_api_response makes of it
RequestSendOk(t, response) ==
    /\ pc[t] = "awaiting" /\ op[t] = "request"
    /\ resp' = [resp EXCEPT ![t] = Some(response)]
    /\ mapped' = [mapped EXCEPT ![t] = @ + 1]
    /\ Return(t, {map_api_response(response)})
    /\ UNCHANGED <<bodyRead, nSends>>

-----------------------------------------------------------------------------
(* request_raw_bytes: the transport's answer *)

\* send() fails: `?` returns the error
RawSendErr(t, cause) ==
    /\ pc[t] = "awaiting" /\ op[t] = "request_raw_bytes"
    /\ Return(t, {TransportFailure(cause)})
    /\ UNCHANGED <<resp, mapped, bodyRead, nSends>>

\* a plausible slip: only the first chunk of the body copied
RawCopyOk_firstChunk(t, response) ==
    /\ pc[t] = "awaiting" /\ op[t] = "request_raw_bytes"
    /\ resp' = [resp EXCEPT ![t] = Some(response)]
    /\ bodyRead' = [bodyRead EXCEPT ![t] = TRUE]
    /\ Return(t, {RawBytes(SubSeq(response.body, 1, 1))})
    /\ UNCHANGED <<mapped, nSends>>

\* send() yields a response and copy_to reads it to the end: Ok(buf)
RawCopyOk(t, response) ==
    /\ pc[t] = "awaiting" /\ op[t] = "request_raw_bytes"
    /\ resp' = [resp EXCEPT ![t] = Some(response)]
    /\ bodyRead' = [bodyRead EXCEPT ![t] = TRUE]
    /\ Return(t, {RawBytes(copy_to(response, <<>>))})
    /\ UNCHANGED <<mapped, nSends>>

\* a plausible slip: the bytes read so far handed back next to the error
RawCopyErr_partial(t, response) ==
    /\ pc[t] = "awaiting" /\ op[t] = "request_raw_bytes"
    /\ resp' = [resp EXCEPT ![t] = Some(response)]
    /\ Return(t, {TransportFailure(BodyError), RawBytes(<<>>)})
    /\ UNCHANGED <<mapped, bodyRead, nSends>>

\* send() yields a response but copy_to fails part-way: `?` returns the
\* error and buf is dropped
RawCopyErr(t, response) ==
    /\ pc[t] = "awaiting" /\ op[t] = "request_raw_bytes"
    /\ resp' = [resp EXCEPT ![t] = Some(response)]
    /\ Return(t, {TransportFailure(BodyError)})
    /\ UNCHANGED <<mapped, bodyRead, nSends>>

-----------------------------------------------------------------------------

Next ==
    \/ \E c \in CredentialsSet, cfg \in Configs, e \in Environments, b \in BOOLEAN :
          New(c, cfg, e, b)
    \/ \E t \in Threads, e \in Endpoints : Request(t, e)
    \/ \E t \in Threads, e \in Endpoints : RequestRawBytes(t, e)
    \/ \E t \in Threads, c \in TransportErrors : RequestSendErr(t, c)
    \/ \E t \in Threads, r \in Responses : RequestSendOk(t, r)
    \/ \E t \in Threads, c \in TransportErrors : RawSendErr(t, c)
    \/ \E t \in Threads, r \in Responses : RawCopyOk(t, r)
    \/ \E t \in Threads, r \in Responses : RawCopyErr(t, r)

Spec == Init /\ [][Next]_vars

-----------------------------------------------------------------------------
(* Properties *)

Built(t) == IsSome(wire[t])

ReturnedFrom(t, which) == pc[t] = "returned" /\ op[t] = which

ContentTypeHeaders(w) == { h \in w.headers : h[1] = "content-type" }

\* C1: every call of request or request_raw_bytes that returns hands back
\* exactly one value, and that value is either a success (Ok) or a failure
\* (Err) -- never both, never neither.
C1_ExactlyOneOutcome ==
    \A t \in Threads :
        pc[t] = "returned" =>
            /\ Cardinality(ret[t]) = 1
            /\ \A o \in ret[t] :
                  /\ o.kind \in {"Ok", "Err"}
                  /\ (o.kind = "Ok") = (o.class \in {"Success", "Bytes"})
                  /\ (o.kind = "Err") = (o.class \in {"Transport", "Service", "Shape"})

C1_Witness ==
    /\ ReturnedFrom("t1", "request") /\ \E o \in ret["t1"] : o.kind = "Ok"
    /\ ReturnedFrom("t2", "request_raw_bytes") /\ \E o \in ret["t2"] : o.kind = "Err"

\* C2: when request's send obtains no response, the call returns a transport
\* failure, map_api_response was not invoked for that call, and the value
\* returned is no service failure, shape failure or success.
C2_SendFailureIsTransport ==
    \A t \in Threads :
        (ReturnedFrom(t, "request") /\ resp[t] = None) =>
            /\ mapped[t] = 0
            /\ ret[t] # {}
            /\ \A o \in ret[t] :
                  /\ o.kind = "Err" /\ o.class = "Transport"
                  /\ o.cause \in TransportErrors

C2_Witness ==
    \E t \in Threads :
        /\ ReturnedFrom(t, "request") /\ resp[t] = None
        /\ \E o \in ret[t] : o.cause = "timeout"

\* C3: for every response request obtains, the value returned is a success,
\* a service failure or a shape failure, fixed by the response alone:
\* success only if the envelope parses with success true; service failure
\* only if success is false or the status is an error, carrying the
\* envelope's errors in the service's order; shape failure only if the body
\* does not parse; and a body that does not parse with status 200 is a shape
\* failure.
C3_ThreeWaySplit ==
    \A t \in Threads :
        (ReturnedFrom(t, "request") /\ IsSome(resp[t])) =>
            LET r == Unwrap(resp[t])
                env == ParseEnvelope(r.body)
            IN  /\ mapped[t] = 1
                /\ \A o \in ret[t] :
                      /\ o.class \in {"Success", "Service", "Shape"}
                      /\ o.class = "Success" =>
                            env.ok /\ env.success /\ o.result = env.result
                      /\ o.class = "Service" =>
                            /\ (env.ok /\ ~env.success) \/ r.status >= 400
                            /\ env.ok => o.errors = env.errors
                      /\ o.class = "Shape" => ~env.ok
                      /\ (r.status = 200 /\ ~env.ok) => o.class = "Shape"
                /\ \A u \in Threads :
                      (ReturnedFrom(u, "request") /\ resp[u] = resp[t])
                          => ret[u] = ret[t]

C3_Witness ==
    /\ ReturnedFrom("t1", "request")
    /\ resp["t1"] = Some([status |-> 200, body |-> <<"<html>">>])
    /\ ReturnedFrom("t2", "request")
    /\ resp["t2"] = Some([status |-> 400, body |-> <<"f", "n", "e7000", "e1003">>])
    /\ \E o \in ret["t2"] : Len(o.errors) = 2 /\ o.errors[1].code = 7000

\* C4: every wire request make_request builds has no body and no
\* content-type header when the endpoint's body() is absent, and has the
\* serialized body and exactly one content-type header, equal to the
\* endpoint's content_type(), when body() is present -- for request and
\* request_raw_bytes alike and whatever the credentials.
C4_ContentTypeIffBody ==
    \A t \in Threads :
        Built(t) =>
            LET w == Unwrap(wire[t])
                e == Unwrap(ep[t])
            IN  IF e.body = None
                THEN w.body = None /\ ContentTypeHeaders(w) = {}
                ELSE /\ w.body = Some(to_string(Unwrap(e.body)).text)
                     /\ ContentTypeHeaders(w) = {<<"content-type", e.content_type>>}

C4_Witness ==
    /\ Built("t1") /\ op["t1"] = "request" /\ Unwrap(ep["t1"]).body = None
    /\ Built("t2") /\ op["t2"] = "request_raw_bytes"
    /\ Unwrap(ep["t2"]).content_type = "application/javascript"
    /\ Unwrap(wire["t2"]).body = Some(<<"[", "\"a\"", ",", "\"b\"", "]">>)
    /\ Unwrap(client).credentials.tag = "UserAuthKey"

\* C5: nothing is retried: over any sequence of calls the number of wire
\* requests sent never exceeds the number of calls, and a call that has
\* returned or panicked sent at most the one request it built.
C5_NoRetry ==
    /\ nSends <= nCalls
    /\ nSends = nCalls - Cardinality({ t \in Threads : pc[t] = "panicked" })

C5_Witness ==
    /\ nCalls = MaxCalls
    /\ \E t \in Threads : ReturnedFrom(t, "request") /\ resp[t] = None
    /\ \E t \in Threads :
          /\ ReturnedFrom(t, "request_raw_bytes")
          /\ IsSome(resp[t]) /\ ~bodyRead[t]

\* C6: once constructed, the client's environment and credentials never
\* change, whatever calls run and however they interleave, and every wire
\* request is addressed from that environment and carries that
\* credentials value's headers and no other authentication header.
C6_ClientFixed ==
    /\ [][IsSome(client) => client' = client]_vars
    /\ [](\A t \in Threads :
            Built(t) =>
                LET w == Unwrap(wire[t])
                    c == Unwrap(client)
                IN  /\ w.headers \ ContentTypeHeaders(w) = AuthHeaders(c.credentials)
                    /\ w.url.base = UrlFromEnvironment(c.environment))

C6_Witness ==
    /\ pc["t1"] = "awaiting" /\ pc["t2"] = "awaiting"
    /\ nCalls = MaxCalls
    /\ Unwrap(client).credentials.tag = "UserAuthToken"
    /\ <<"Authorization", "Bearer tok">> \in Unwrap(wire["t1"]).headers

\* C7: for one endpoint, request_raw_bytes builds the same wire request as
\* request; when the body is read to its end it returns exactly the
\* response's body bytes, and when the send or the read fails it returns a
\* transport error and no bytes.
C7_RawBytesVerbatim ==
    /\ \A t, u \in Threads :
          (Built(t) /\ Built(u) /\ ep[t] = ep[u]) => wire[t] = wire[u]
    /\ \A t \in Threads :
          ReturnedFrom(t, "request_raw_bytes") =>
              IF bodyRead[t]
              THEN /\ IsSome(resp[t])
                   /\ ret[t] = {RawBytes(Unwrap(resp[t]).body)}
              ELSE /\ ret[t] # {}
                   /\ \A o \in ret[t] :
                         o.kind = "Err" /\ o.class = "Transport" /\ o.bytes = <<>>

C7_Witness ==
    /\ Built("t1") /\ op["t1"] = "request"
    /\ ReturnedFrom("t2", "request_raw_bytes") /\ bodyRead["t2"]
    /\ ep["t1"] = ep["t2"] /\ Unwrap(ep["t1"]).body # None
    /\ Unwrap(resp["t2"]).body = <<"f", "n", "e1003", "e7000">>

\* C8: when the transport cannot be built, new returns an error and no
\* client value exists; without a client no call is ever issued, so the
\* build failure is never reported by a call.
C8_ConstructionFailure ==
    /\ newResult = "err" => client = None
    /\ client = None =>
          /\ nCalls = 0
          /\ \A t \in Threads : pc[t] = "idle" /\ ret[t] = {}
    /\ newResult = "ok" <=> IsSome(client)

C8_Witness == newResult = "err"

\* C9: for an endpoint whose body() is present but cannot be serialized,
\* request and request_raw_bytes return a failure and never panic, and
\* nothing is sent.
C9_SerializationFailureReturned ==
    \A t \in Threads :
        (IsSome(ep[t]) /\ MakeRequestPanics(Unwrap(ep[t]))) =>
            /\ pc[t] = "returned"
            /\ ret[t] # {} /\ \A o \in ret[t] : o.kind = "Err"
            /\ wire[t] = None

\* C10: resolving an Environment is a total pure mapping: Production always
\* gives https://api.cloudflare.com/client/v4/, Custom(address) gives the
\* address unchanged, and repeated resolutions of one Environment agree.
C10_ResolveEnvironment ==
    \A t \in Threads :
        Built(t) =>
            LET environment == Unwrap(client).environment
                base == Unwrap(wire[t]).url.base
            IN  /\ environment.tag = "Production"
                      => base = "https://api.cloudflare.com/client/v4/"
                /\ environment.tag = "Custom" => base = environment.url
                /\ \A u \in Threads :
                      Built(u) => Unwrap(wire[u]).url.base = base

C10_Witness ==
    /\ Built("t1") /\ Built("t2")
    /\ Unwrap(client).environment.tag = "Custom"
    /\ Unwrap(wire["t2"]).url.base = "http://localhost:8787/v4/"

====
